---- MODULE Spec2Model ----
(***************************************************************************)
(* A model of create_video.py: the narrated-video pipeline.                *)
(*                                                                         *)
(* main() is a straight-line procedure that calls external collaborators   *)
(* (the TTS service, ffmpeg, ffprobe, the file system).  The model follows *)
(* one run of main(): pc is the pipeline state the run is in, the other    *)
(* variables are main()'s locals, the module-level configuration, the      *)
(* working directory's files, and a record of the calls made so far.       *)
(*                                                                         *)
(* Units: durations are counted in half seconds, so FADE_DURATION (0.5 s)  *)
(* and SILENCE_PADDING (0.5 s) are 1, and RETRY_BACKOFF (2.0 s) is kept in *)
(* seconds (only the waits use it).                                        *)
(*                                                                         *)
(* Failures modelled: every sys.exit and raise of the source, every        *)
(* exception of a TTS call, and every failure of a subprocess run with     *)
(* check=True or of the parsing of ffprobe's answer.  _import_voice_       *)
(* settings is taken to succeed once the SDK import of main() succeeded,   *)
(* and unlink is taken not to fail.  write_bytes may fail after writing a  *)
(* part of the payload; being inside the try block, this is a failed       *)
(* attempt like a failed TTS call.  A successful TTS call returns at least *)
(* one byte of audio.                                                      *)
(*                                                                         *)
(* Specifications: Spec is one run in any environment.  SpecParse is one   *)
(* run in a valid environment on a chosen script, kept in text so that     *)
(* what parse_script does can be compared with what it read.  SpecRerun is *)
(* a run followed by a second run in the same directory on the same        *)
(* inputs; prev records what the first run did.                            *)
(***************************************************************************)
EXTENDS Integers, Sequences, FiniteSets, TLC

\* ------------------------------------------------------------------ bounds
\* Slide numbers range over 1..MaxSlide.
MaxSlide == 2
\* The scripts a run may find have at most MaxScriptLines lines.
MaxScriptLines == 2
\* The scripts parse_script is followed on have at most MaxDocLines lines.
MaxDocLines == 4
\* ffprobe reports total durations in 0..MaxDur (half seconds).
MaxDur == 2

\* ------------------------------------------------- configuration constants
MAX_RETRIES == 3
RETRY_BACKOFF == 2
FADE_DURATION == 1
SILENCE_PADDING == 1

SlideNums == 1..MaxSlide

VARIABLES
    PATH,                 \* the tools found on PATH: a subset of {"ffmpeg","ffprobe"}
    ELEVENLABS_API_KEY,   \* the module-level credential
    sdk_installed,        \* whether "from elevenlabs import ElevenLabs" succeeds
    SKIP_EXISTING_AUDIO,  \* configuration flag
    CLEANUP,              \* configuration flag
    fs,                   \* the working directory: path -> content
    pc,                   \* the pipeline state of the run
    exit_status,          \* -1 while running, then the process's exit status
    error,                \* what ended the run, <<type, slide, cause>>
    warnings,             \* the warnings printed so far
    script_path,          \* main's local
    slide_images,         \* main's local: slide number -> image path
    narration,            \* main's local: slide number -> cleaned body
    slide_numbers,        \* main's local: the processing order
    i,                    \* position of the running for-loop in slide_numbers
    attempt,              \* generate_audio's loop variable (0: not in the loop)
    audio_files,          \* main's local: slide number -> mp3 path
    padded_files,         \* main's local
    slide_videos,         \* main's local
    manifest,             \* the lines last written to _concat_list.txt by the run
    calls,                \* the calls made by the run, in order
    written,              \* paths the run has created or overwritten
    deleted,              \* paths the run has unlinked
    text,                 \* parse_script's local: the script it read, kept
                          \* until main has used the result (Reconcile)
    prev                  \* the previous run in this directory: how it
                          \* ended, its inputs, the slides whose audio it
                          \* wrote (audio_ok)

vars == <<PATH, ELEVENLABS_API_KEY, sdk_installed, SKIP_EXISTING_AUDIO, CLEANUP,
          fs, pc, exit_status, error, warnings, script_path, slide_images,
          narration, slide_numbers, i, attempt, audio_files, padded_files,
          slide_videos, manifest, calls, written, deleted, text, prev>>

config == <<PATH, ELEVENLABS_API_KEY, sdk_installed, SKIP_EXISTING_AUDIO, CLEANUP>>

\* ------------------------------------------------------------------ helpers
RECURSIVE sorted(_)
sorted(S) ==
    IF S = {} THEN <<>>
    ELSE LET m == CHOOSE x \in S : \A y \in S : x <= y
         IN <<m>> \o sorted(S \ {m})

Range(s) == {s[k] : k \in 1..Len(s)}

max(a, b) == IF a >= b THEN a ELSE b

\* ---------------------------------------------------------------- the files
mp3_path(n) == <<"slide.mp3", n>>
padded_mp3(n) == <<"slide_padded.mp3", n>>
slide_mp4(n) == <<"slide.mp4", n>>
png_path(n) == <<"slide.png", n>>
CONCAT_LIST == <<"_concat_list.txt", 0>>
RAW_CONCAT == <<"_raw_concat.mp4", 0>>
FINAL_OUTPUT == <<"final_video.mp4", 0>>

Intermediates(n) == {mp3_path(n), padded_mp3(n), slide_mp4(n)}
Paths ==
    UNION {Intermediates(n) : n \in SlideNums}
    \cup {CONCAT_LIST, RAW_CONCAT, FINAL_OUTPUT}

\* File contents: <<tag, slide, attempt>>.
Absent == <<"absent", 0, 0>>
Empty == <<"empty", 0, 0>>
Old == <<"old", 0, 0>>
Partial == <<"partial", 0, 0>>
Payload(n, k) == <<"audio", n, k>>

is_file(c) == c # Absent
st_size(c) == IF c \in {Absent, Empty} THEN 0 ELSE 1

\* A call the run made: what was called, on which file, how it ended, and its
\* argument (the attempt of a TTS call, the seconds of a sleep, the fade-out
\* start of a fade, the duration apply_fades' probe returned).
\* "generate_audio" records an invocation of generate_audio; "tts" a call of
\* the TTS collaborator.
Call(op, path, ok, arg) == [op |-> op, path |-> path, ok |-> ok, arg |-> arg]

MediaOps == {"probe", "pad", "render", "concat", "fade"}
\* ------------------------------------------------------------ parse_script
\* A script is its lines and whether the last line ends with a newline.  A
\* line is <<kind, number>>: a "SLIDE <number>" header, a separator line
\* (three or more = or -), a footer (END OF SCRIPT / END OF NARRATION), a
\* line of narration text, or a blank line.
MarkerLines == {<<"SLIDE", k>> : k \in SlideNums}
BodyLines == {<<"sep", 0>>, <<"footer", 0>>, <<"text", 1>>, <<"blank", 0>>}
ScriptLines == MarkerLines \cup BodyLines

SeqsUpTo(S, n) == UNION {[1..k -> S] : k \in 0..n}

Documents(n) ==
    {[lines |-> l, nl |-> b] : l \in SeqsUpTo(ScriptLines, n), b \in BOOLEAN}
        \ {[lines |-> <<>>, nl |-> TRUE]}

Blank == <<"blank", 0>>

\* slide_re.finditer(text): the positions of the header lines, in order.
matches(lines) == sorted({k \in 1..Len(lines) : lines[k][1] = "SLIDE"})

\* text[body_start:body_end], as lines.
raw_body(lines, ms, idx) ==
    SubSeq(lines, ms[idx] + 1,
           IF idx + 1 <= Len(ms) THEN ms[idx + 1] - 1 ELSE Len(lines))

keep_line(l) == l[1] \notin {"sep", "footer"}

cleaned_lines(body) == SelectSeq(body, keep_line)

\* "\n".join(cleaned_lines).strip(): blank lines at either end go.
RECURSIVE strip(_)
strip(s) ==
    IF s = <<>> THEN <<>>
    ELSE IF Head(s) = Blank THEN strip(Tail(s))
    ELSE IF s[Len(s)] = Blank THEN strip(SubSeq(s, 1, Len(s) - 1))
    ELSE s

\* re.sub(r"\n{3,}", "\n\n", body): a run of blank lines becomes one.
RECURSIVE collapse(_)
collapse(s) ==
    IF Len(s) < 2 THEN s
    ELSE IF s[1] = Blank /\ s[2] = Blank THEN collapse(Tail(s))
    ELSE <<s[1]>> \o collapse(Tail(s))

section_body(lines, ms, idx) == collapse(strip(cleaned_lines(raw_body(lines, ms, idx))))

\* text.index("\n", match.start()) raises ValueError when the header is the
\* last line and the text does not end with a newline.
line_end_missing(doc, ms, idx) == ms[idx] = Len(doc.lines) /\ ~doc.nl

\* (variant: the test for an empty match list is missing)
no_markers_unchecked(ms) == FALSE

\* Line 114: no header line was found.
no_markers(ms) == ms = <<>>

\* The result: error is "" and slides the mapping, or error names the
\* ValueError raised; empty is the slide numbers warned about.
parse_script(doc) ==
    LET lines == doc.lines
        ms == matches(lines)
        keys == {lines[ms[k]][2] : k \in 1..Len(ms)}
        last(n) == CHOOSE k \in 1..Len(ms) :
                      /\ lines[ms[k]][2] = n
                      /\ \A j \in 1..Len(ms) : lines[ms[j]][2] = n => j <= k
        done == {k \in 1..Len(ms) : \A j \in 1..k : ~line_end_missing(doc, ms, j)}
    IN IF no_markers(ms)
       THEN [error |-> "No SLIDE markers found", slides |-> <<>>, empty |-> {}]
       ELSE IF \E k \in 1..Len(ms) : line_end_missing(doc, ms, k)
       THEN [error |-> "substring not found", slides |-> <<>>,
             empty |-> {lines[ms[k]][2] : k \in {j \in done : section_body(lines, ms, j) = <<>>}}]
       ELSE [error |-> "",
             slides |-> [n \in keys |-> section_body(lines, ms, last(n))],
             empty |-> {lines[ms[k]][2] : k \in {j \in 1..Len(ms) : section_body(lines, ms, j) = <<>>}}]

\* ------------------------------------------------------------ the helpers
\* require_tool: whether shutil.which(name) finds the tool.
require_tool(name, path) == name \in path

\* (variant: only the empty credential is refused)
api_key_unset_empty_only(key) == key = ""

\* main's credential test.
api_key_unset(key) == key \in {"", "YOUR_API_KEY_HERE"}

NotFound == <<"", "">>

\* find_script_file: dirs are the directories that hold script.txt.
find_script_file(dirs) ==
    IF "work_dir" \in dirs THEN <<"work_dir", "script.txt">>
    ELSE IF "parent" \in dirs THEN <<"parent", "script.txt">>
    ELSE NotFound

\* find_slide_images: pngs are the numbers N of the directory's entries that
\* match slide<N>.png; every other entry is passed over.
find_slide_images(pngs) == [n \in pngs |-> png_path(n)]

\* Lines 508-509 and 524 of main.
\* (variant: the operands of the difference exchanged)
only_images_swapped(images, narr) == sorted(DOMAIN narr \ DOMAIN images)
\* (variant: images without narration are not looked for)
only_images_ignored(images, narr) == <<>>
only_images(images, narr) == sorted(DOMAIN images \ DOMAIN narr)
only_narration(images, narr) == sorted(DOMAIN narr \ DOMAIN images)
\* (variant: the slides taken to be numbered 1..total_slides)
workable_contiguous(images, narr) == sorted(1..Cardinality(DOMAIN images))
\* (variant: every narrated slide processed, with or without an image)
workable_all_narration(images, narr) == sorted(DOMAIN narr)
\* (variant: the slides taken in descending order)
workable_descending(images, narr) ==
    LET up == sorted(DOMAIN images \cap DOMAIN narr)
    IN [k \in 1..Len(up) |-> up[Len(up) + 1 - k]]
workable(images, narr) == sorted(DOMAIN images \cap DOMAIN narr)

total_slides == Cardinality(DOMAIN slide_images)

\* (variant: an existing file is never reused)
cache_hit_never(skip, content) == FALSE

\* (variant: the size of the existing file is not looked at)
cache_hit_any_file(skip, content) == skip /\ is_file(content)

\* generate_audio's caching shortcut.
cache_hit(skip, content) == skip /\ is_file(content) /\ st_size(content) > 0

\* (variant: the wait does not grow)
backoff_constant(k) == RETRY_BACKOFF

\* generate_audio's wait after failed attempt k.
backoff_wait(k) == RETRY_BACKOFF * (2 ^ (k - 1))

\* (variant: a failed attempt is always followed by another one)
retry_after_always(k) == TRUE

\* (variant: one attempt too many)
retry_after_inclusive(k) == k <= MAX_RETRIES

\* generate_audio: whether failed attempt k is followed by another one.
retry_after(k) == k < MAX_RETRIES

\* (variant: the fade-out start is not clamped)
fade_out_start_unclamped(total_dur) == total_dur - FADE_DURATION

\* apply_fades' fade-out start.
fade_out_start(total_dur) == max(0, total_dur - FADE_DURATION)

\* The video a successful apply_fades leaves: its fade-in start (st=0 in both
\* filters) and its fade-out start; both fades last FADE_DURATION.
Faded(total_dur) == <<"final", 0, fade_out_start(total_dur)>>
\* --------------------------------------------------------------- the state
Tools == {"ffmpeg", "ffprobe"}
\* No script is being parsed.
NoText == [lines |-> <<>>, nl |-> TRUE]
\* No run came before this one.
NoPrev == [ran |-> FALSE, status |-> "", slide_images |-> <<>>, narration |-> <<>>,
           script_path |-> <<"", "">>, warnings |-> {}, audio_ok |-> {}]
Keys == {"", "YOUR_API_KEY_HERE", "sk-valid"}
NoError == <<"", 0, 0>>

\* Before the run: any configuration, and a working directory in which each
\* slide's mp3 may be left over from an earlier run (absent, empty, or audio).
Init ==
    /\ PATH \in SUBSET Tools
    /\ ELEVENLABS_API_KEY \in Keys
    /\ sdk_installed \in BOOLEAN
    /\ SKIP_EXISTING_AUDIO \in BOOLEAN
    /\ CLEANUP \in BOOLEAN
    /\ \E pre \in [SlideNums -> {Absent, Empty, Old}] :
           fs = [p \in Paths |-> IF p[1] = "slide.mp3" THEN pre[p[2]] ELSE Absent]
    /\ pc = "Init"
    /\ exit_status = -1
    /\ error = NoError
    /\ warnings = {}
    /\ script_path = NotFound
    /\ slide_images = <<>>
    /\ narration = <<>>
    /\ slide_numbers = <<>>
    /\ i = 0
    /\ attempt = 0
    /\ audio_files = <<>>
    /\ padded_files = <<>>
    /\ slide_videos = <<>>
    /\ manifest = <<>>
    /\ calls = <<>>
    /\ written = {}
    /\ deleted = {}
    /\ text = NoText
    /\ prev = NoPrev

\* (variant: a failure starts the pipeline over instead of ending the run)
Fail_restart(type, n, k) ==
    /\ pc' = "Init"
    /\ exit_status' = exit_status
    /\ error' = <<type, n, k>>

\* sys.exit(message) and an exception that reaches the top level both end
\* the process with a non-zero status.
Fail(type, n, k) ==
    /\ pc' = "Failed"
    /\ exit_status' = 1
    /\ error' = <<type, n, k>>

Goto(state) ==
    /\ pc' = state
    /\ UNCHANGED <<exit_status, error>>

\* ---------------------------------------------------------------- main()
\* Lines 466-485: the tools, the credential, the SDK.
ValidateEnvironment ==
    /\ pc = "Init"
    /\ IF ~require_tool("ffmpeg", PATH) THEN Fail("SystemExit: ffmpeg", 0, 0)
       ELSE IF ~require_tool("ffprobe", PATH) THEN Fail("SystemExit: ffprobe", 0, 0)
       ELSE IF api_key_unset(ELEVENLABS_API_KEY) THEN Fail("SystemExit: API key", 0, 0)
       ELSE IF ~sdk_installed THEN Fail("SystemExit: SDK", 0, 0)
       ELSE Goto("Discover")
    /\ UNCHANGED <<config, text, prev, fs, warnings, script_path, slide_images, narration,
                   slide_numbers, i, attempt, audio_files, padded_files,
                   slide_videos, manifest, calls, written, deleted>>

\* Lines 488-505: find the script, list the images, parse the script;
\* parsed is what parse_script does on the script found.
DiscoverWith(parsed) ==
    /\ pc = "Discover"
    /\ \E dirs \in SUBSET {"work_dir", "parent"}, pngs \in SUBSET SlideNums :
         LET found == find_script_file(dirs)
             images == find_slide_images(pngs)
         IN /\ script_path' = found
            /\ slide_images' = IF found = NotFound THEN slide_images ELSE images
            /\ IF found = NotFound
               THEN /\ Fail("FileNotFoundError", 0, 0)
                    /\ UNCHANGED <<narration, warnings>>
               ELSE IF DOMAIN images = {}
               THEN /\ Fail("SystemExit: no images", 0, 0)
                    /\ UNCHANGED <<narration, warnings>>
               ELSE /\ warnings' = warnings \cup {<<"empty narration", {n}>> : n \in parsed.empty}
                    /\ IF parsed.error # ""
                       THEN /\ Fail(IF parsed.error = "No SLIDE markers found"
                                     THEN "ValueError: No SLIDE markers found"
                                     ELSE "ValueError: substring not found", 0, 0)
                            /\ UNCHANGED narration
                       ELSE Goto("Reconcile") /\ narration' = parsed.slides
    /\ UNCHANGED <<config, text, prev, fs, slide_numbers, i, attempt, audio_files,
                   padded_files, slide_videos, manifest, calls, written, deleted>>

\* What parse_script does on the scripts of at most MaxScriptLines lines.
ParseResults == {parse_script(doc) : doc \in Documents(MaxScriptLines)}

\* The run finds some script of at most MaxScriptLines lines.
Discover ==
    /\ pc = "Discover"
    /\ \E parsed \in ParseResults : DiscoverWith(parsed)

\* The run finds the script the specification follows.
DiscoverText ==
    /\ pc = "Discover"
    /\ text # NoText
    /\ DiscoverWith(parse_script(text))

\* Lines 507-524: every image needs narration; narration without an image
\* is only reported.
Reconcile ==
    /\ pc = "Reconcile"
    /\ IF only_images(slide_images, narration) # <<>>
       THEN /\ Fail("SystemExit: images without narration", 0, 0)
            /\ UNCHANGED <<warnings, slide_numbers, i>>
       ELSE /\ warnings' = warnings \cup
                   (IF only_narration(slide_images, narration) # <<>>
                    THEN {<<"narration without image",
                            Range(only_narration(slide_images, narration))>>}
                    ELSE {})
            /\ slide_numbers' = workable(slide_images, narration)
            /\ i' = 1
            /\ Goto("Synthesize")
    /\ text' = NoText
    /\ UNCHANGED <<config, prev, fs, script_path, slide_images, narration, attempt,
                   audio_files, padded_files, slide_videos, manifest, calls,
                   written, deleted>>

\* generate_audio returned for slide n (line 533), and the loop of lines
\* 530-533 goes to its next slide or ends.
AudioDone(n) ==
    /\ audio_files' = [m \in DOMAIN audio_files \cup {n} |-> mp3_path(m)]
    /\ attempt' = 0
    /\ IF i < Len(slide_numbers)
       THEN i' = i + 1 /\ Goto("Synthesize")
       ELSE i' = 1 /\ Goto("BuildSegments")

\* Lines 530-532 and 170-185: the call of generate_audio and its shortcut.
GenerateAudio ==
    /\ pc = "Synthesize"
    /\ attempt = 0
    /\ LET n == slide_numbers[i]
       IN /\ calls' = Append(calls, Call("generate_audio", mp3_path(n), TRUE, 0))
          /\ IF cache_hit(SKIP_EXISTING_AUDIO, fs[mp3_path(n)])
             THEN AudioDone(n)
             ELSE /\ attempt' = 1
                  /\ Goto("Synthesize")
                  /\ UNCHANGED <<i, audio_files>>
    /\ UNCHANGED <<config, text, prev, fs, warnings, script_path, slide_images, narration,
                   slide_numbers, padded_files, slide_videos, manifest,
                   written, deleted>>

\* What a failed ffmpeg run or a failed write_bytes leaves at its output
\* path: nothing new, or a partial file.
Leftover(partial, before) == IF partial THEN Partial ELSE before

\* Lines 187-215: one pass of the retry loop.  The call, the joining of the
\* stream and the write are in the try block; ok is whether all succeeded,
\* partial whether a failed pass got as far as writing a part of the file.
TtsAttempt ==
    /\ pc = "Synthesize"
    /\ attempt >= 1
    /\ \E ok \in BOOLEAN, partial \in BOOLEAN :
         LET n == slide_numbers[i]
             call == Call("tts", mp3_path(n), ok, attempt)
         IN IF ok
            THEN /\ calls' = Append(calls, call)
                 /\ fs' = [fs EXCEPT ![mp3_path(n)] = Payload(n, attempt)]
                 /\ written' = written \cup {mp3_path(n)}
                 /\ AudioDone(n)
            ELSE IF retry_after(attempt)
            THEN /\ calls' = calls \o
                       <<call, Call("sleep", mp3_path(n), TRUE, backoff_wait(attempt))>>
                 /\ attempt' = attempt + 1
                 /\ Goto("Synthesize")
                 /\ fs' = [fs EXCEPT ![mp3_path(n)] = Leftover(partial, @)]
                 /\ written' = written \cup (IF partial THEN {mp3_path(n)} ELSE {})
                 /\ UNCHANGED <<i, audio_files>>
            ELSE /\ calls' = Append(calls, call)
                 /\ Fail("RuntimeError", n, attempt)
                 /\ fs' = [fs EXCEPT ![mp3_path(n)] = Leftover(partial, @)]
                 /\ written' = written \cup (IF partial THEN {mp3_path(n)} ELSE {})
                 /\ UNCHANGED <<i, audio_files, attempt>>
    /\ UNCHANGED <<config, text, prev, warnings, script_path, slide_images, narration,
                   slide_numbers, padded_files, slide_videos, manifest, deleted>>

\* (variant: the tools' exit status is not looked at)
BuildNext_unchecked(out, n) ==
    IF i < Len(slide_numbers)
    THEN i' = i + 1 /\ Goto("BuildSegments")
    ELSE i' = 1 /\ Goto("Concatenate")

\* Lines 541-551 after the tools ran: subprocess.run(check=True) and
\* get_duration raise on failure, which ends the run; otherwise the loop goes
\* to its next slide or ends.
BuildNext(out, n) ==
    IF out # "ok"
    THEN /\ Fail(IF out = "probe_fail" THEN "get_duration" ELSE "CalledProcessError", n, 0)
         /\ UNCHANGED i
    ELSE IF i < Len(slide_numbers)
    THEN i' = i + 1 /\ Goto("BuildSegments")
    ELSE i' = 1 /\ Goto("Concatenate")

\* Lines 541-551: pad the audio, measure it, render the segment.
BuildSegment ==
    /\ pc = "BuildSegments"
    /\ \E out \in {"pad_fail", "probe_fail", "render_fail", "ok"}, partial \in BOOLEAN :
         LET n == slide_numbers[i]
             pad(ok) == Call("pad", padded_mp3(n), ok, SILENCE_PADDING)
             probe(ok) == Call("probe", padded_mp3(n), ok, 0)
             render(ok) == Call("render", slide_mp4(n), ok, 0)
             padded == <<"padded", n, 0>>
             segment == <<"segment", n, 0>>
         IN /\ calls' = calls \o
                  (CASE out = "pad_fail" -> <<pad(FALSE)>>
                     [] out = "probe_fail" -> <<pad(TRUE), probe(FALSE)>>
                     [] out = "render_fail" -> <<pad(TRUE), probe(TRUE), render(FALSE)>>
                     [] out = "ok" -> <<pad(TRUE), probe(TRUE), render(TRUE)>>)
            /\ fs' = [fs EXCEPT
                  ![padded_mp3(n)] = IF out = "pad_fail" THEN Leftover(partial, @) ELSE padded,
                  ![slide_mp4(n)] = CASE out = "ok" -> segment
                                      [] out = "render_fail" -> Leftover(partial, @)
                                      [] OTHER -> @]
            /\ written' = written
                  \cup (IF out # "pad_fail" \/ partial THEN {padded_mp3(n)} ELSE {})
                  \cup (IF out = "ok" \/ (out = "render_fail" /\ partial)
                        THEN {slide_mp4(n)} ELSE {})
            /\ padded_files' = IF out = "pad_fail" THEN padded_files
                               ELSE Append(padded_files, padded_mp3(n))
            /\ slide_videos' = IF out = "ok" THEN Append(slide_videos, slide_mp4(n))
                               ELSE slide_videos
            /\ BuildNext(out, n)
    /\ UNCHANGED <<config, text, prev, warnings, script_path, slide_images, narration,
                   slide_numbers, attempt, audio_files, manifest, deleted>>

\* Lines 553-560 and concatenate_videos: write the manifest, join the
\* segments, remove the manifest, measure the result.
Concatenate ==
    /\ pc = "Concatenate"
    /\ \E out \in {"concat_fail", "probe_fail", "ok"}, partial \in BOOLEAN :
         /\ manifest' = slide_videos
         /\ calls' = calls \o
               (CASE out = "concat_fail" -> <<Call("concat", RAW_CONCAT, FALSE, 0)>>
                  [] out = "probe_fail" -> <<Call("concat", RAW_CONCAT, TRUE, 0),
                                             Call("probe", RAW_CONCAT, FALSE, 0)>>
                  [] out = "ok" -> <<Call("concat", RAW_CONCAT, TRUE, 0),
                                     Call("probe", RAW_CONCAT, TRUE, 0)>>)
         /\ fs' = [fs EXCEPT
               ![CONCAT_LIST] = IF out = "concat_fail" THEN <<"manifest", 0, 0>> ELSE Absent,
               ![RAW_CONCAT] = IF out = "concat_fail" THEN Leftover(partial, @)
                               ELSE <<"concat", 0, 0>>]
         /\ written' = written \cup {CONCAT_LIST}
               \cup (IF out # "concat_fail" \/ partial THEN {RAW_CONCAT} ELSE {})
         /\ deleted' = IF out = "concat_fail" THEN deleted ELSE deleted \cup {CONCAT_LIST}
         /\ IF out = "ok" THEN Goto("Fade")
            ELSE Fail(IF out = "probe_fail" THEN "get_duration" ELSE "CalledProcessError", 0, 0)
    /\ UNCHANGED <<config, text, prev, warnings, script_path, slide_images, narration,
                   slide_numbers, i, attempt, audio_files, padded_files, slide_videos>>

\* Lines 562-577 and apply_fades: measure the joined video, fade it into the
\* final output, remove the joined video, measure the final output.
Fade ==
    /\ pc = "Fade"
    /\ \E out \in {"probe_fail", "fade_fail", "summary_fail", "ok"}, partial \in BOOLEAN,
          total_dur \in 0..MaxDur :
         LET fade(ok) == Call("fade", FINAL_OUTPUT, ok, fade_out_start(total_dur))
             measured == Call("probe", RAW_CONCAT, TRUE, total_dur)
             faded == out \in {"summary_fail", "ok"}
         IN /\ calls' = calls \o
                  (CASE out = "probe_fail" -> <<Call("probe", RAW_CONCAT, FALSE, 0)>>
                     [] out = "fade_fail" -> <<measured, fade(FALSE)>>
                     [] out = "summary_fail" -> <<measured, fade(TRUE),
                                                  Call("probe", FINAL_OUTPUT, FALSE, 0)>>
                     [] out = "ok" -> <<measured, fade(TRUE),
                                        Call("probe", FINAL_OUTPUT, TRUE, 0)>>)
            /\ fs' = [fs EXCEPT
                  ![FINAL_OUTPUT] = CASE faded -> Faded(total_dur)
                                      [] out = "fade_fail" -> Leftover(partial, @)
                                      [] OTHER -> @,
                  ![RAW_CONCAT] = IF faded THEN Absent ELSE @]
            /\ written' = written
                  \cup (IF faded \/ (out = "fade_fail" /\ partial) THEN {FINAL_OUTPUT} ELSE {})
            /\ deleted' = IF faded THEN deleted \cup {RAW_CONCAT} ELSE deleted
            /\ IF out = "ok" THEN Goto("Cleanup")
               ELSE Fail(IF out = "fade_fail" THEN "CalledProcessError" ELSE "get_duration", 0, 0)
    /\ UNCHANGED <<config, text, prev, warnings, script_path, slide_images, narration,
                   slide_numbers, i, attempt, audio_files, padded_files,
                   slide_videos, manifest>>

\* (variant: the audio files are left out of the list)
to_delete_without_audio == Range(padded_files) \cup Range(slide_videos)

\* (variant: audio the run reused, not wrote, is left alone)
to_delete_written_only ==
    ({audio_files[n] : n \in DOMAIN audio_files} \cap written)
        \cup Range(padded_files) \cup Range(slide_videos)

\* Lines 582-586: the files the cleanup removes.
to_delete == {audio_files[n] : n \in DOMAIN audio_files}
                 \cup Range(padded_files) \cup Range(slide_videos)

\* Lines 579-596: remove the per-slide files if CLEANUP, and finish.
Cleanup ==
    /\ pc = "Cleanup"
    /\ LET gone == IF CLEANUP THEN {f \in to_delete : is_file(fs[f])} ELSE {}
       IN /\ fs' = [p \in Paths |-> IF p \in gone THEN Absent ELSE fs[p]]
          /\ deleted' = deleted \cup gone
    /\ pc' = "Done"
    /\ exit_status' = 0
    /\ UNCHANGED <<config, text, prev, error, warnings, script_path, slide_images, narration,
                   slide_numbers, i, attempt, audio_files, padded_files,
                   slide_videos, manifest, calls, written>>

Next ==
    \/ ValidateEnvironment
    \/ Discover
    \/ Reconcile
    \/ GenerateAudio
    \/ TtsAttempt
    \/ BuildSegment
    \/ Concatenate
    \/ Fade
    \/ Cleanup

Spec == Init /\ [][Next]_vars

\* One run in which every external call returns: main() is sequential and
\* nothing then stops it from taking its next step.
SpecFair == Spec /\ WF_vars(Next)

\* ------------------------------------------------- parse_script, followed
\* A run in a valid environment (the tools, a credential, the SDK, the
\* flags as lines 77-78 set them, no file of an earlier run) on a chosen
\* script, which stays visible until the run has used parse_script's result.
InitParse ==
    /\ PATH = Tools
    /\ ELEVENLABS_API_KEY = "sk-valid"
    /\ sdk_installed = TRUE
    /\ SKIP_EXISTING_AUDIO = TRUE
    /\ CLEANUP = TRUE
    /\ fs = [p \in Paths |-> Absent]
    /\ pc = "Init"
    /\ exit_status = -1
    /\ error = NoError
    /\ warnings = {}
    /\ script_path = NotFound
    /\ slide_images = <<>>
    /\ narration = <<>>
    /\ slide_numbers = <<>>
    /\ i = 0
    /\ attempt = 0
    /\ audio_files = <<>>
    /\ padded_files = <<>>
    /\ slide_videos = <<>>
    /\ manifest = <<>>
    /\ calls = <<>>
    /\ written = {}
    /\ deleted = {}
    /\ text \in Documents(MaxDocLines)
    /\ prev = NoPrev

NextParse ==
    \/ ValidateEnvironment
    \/ DiscoverText
    \/ Reconcile
    \/ GenerateAudio
    \/ TtsAttempt
    \/ BuildSegment
    \/ Concatenate
    \/ Fade
    \/ Cleanup

SpecParse == InitParse /\ [][NextParse]_vars
\* ================================================================ claims
TtsCalls == SelectSeq(calls, LAMBDA c : c.op = "tts")
MediaCalls == SelectSeq(calls, LAMBDA c : c.op \in MediaOps)
CallsOn(op, n) == SelectSeq(calls, LAMBDA c : c.op = op /\ c.path[2] = n)
PerSlideFiles == UNION {Intermediates(n) : n \in SlideNums}
Reconciled == pc \notin {"Init", "Discover", "Reconcile"}
Parsed == DOMAIN narration # {}

\* C1: once the script is parsed and some slide number has an image but no
\* section of the script, the run leaves Reconcile only to Failed, with a
\* non-zero exit status, no TTS call made and no audio, padded-audio or
\* segment file created.
C1_ImageWithoutNarrationFails ==
    (Parsed /\ DOMAIN slide_images \ DOMAIN narration # {})
        => /\ pc \in {"Reconcile", "Failed"}
           /\ pc = "Failed" => exit_status > 0
           /\ TtsCalls = <<>>
           /\ calls = <<>>
           /\ written \cap PerSlideFiles = {}

C1_Witness ==
    /\ pc = "Failed"
    /\ Parsed
    /\ DOMAIN slide_images \ DOMAIN narration # {}
    /\ DOMAIN slide_images \cap DOMAIN narration # {}

\* C2: in a run that reached Done, generate_audio was invoked, a segment was
\* rendered, and a manifest line was written for exactly the slide numbers
\* that have both narration and an image, once each.
C2_ProcessedIsIntersection ==
    pc = "Done" =>
        LET W == DOMAIN narration \cap DOMAIN slide_images
            once(op) == /\ \A n \in W : Len(CallsOn(op, n)) = 1
                        /\ \A n \in SlideNums \ W : Len(CallsOn(op, n)) = 0
        IN /\ once("generate_audio")
           /\ once("render")
           /\ DOMAIN audio_files = W
           /\ Range(manifest) = {slide_mp4(n) : n \in W}
           /\ Len(manifest) = Cardinality(W)

C2_Witness ==
    /\ pc = "Done"
    /\ Cardinality(DOMAIN narration \cap DOMAIN slide_images) = 2
    /\ Len(manifest) = 2

\* C3: a slide number with narration but no image (every image having
\* narration) does not fail the run: a warning names it, a run that ends in
\* Failed failed in synthesis or media processing, a run that reaches Done
\* exits with status 0, and no call, file or manifest line concerns that
\* slide number.
C3_NarrationWithoutImageSkipped ==
    (Reconciled /\ Parsed /\ DOMAIN slide_images \ DOMAIN narration = {})
        => \A n \in DOMAIN narration \ DOMAIN slide_images :
              /\ \E w \in warnings : w[1] = "narration without image" /\ n \in w[2]
              /\ pc = "Failed" => error[1] \in {"RuntimeError", "CalledProcessError", "get_duration"}
              /\ pc = "Done" => exit_status = 0
              /\ \A k \in 1..Len(calls) : calls[k].path[2] # n
              /\ written \cap Intermediates(n) = {}
              /\ deleted \cap Intermediates(n) = {}
              /\ slide_mp4(n) \notin Range(manifest)
              /\ n \notin DOMAIN audio_files

C3_Witness ==
    /\ pc = "Done"
    /\ exit_status = 0
    /\ DOMAIN narration \ DOMAIN slide_images # {}
    /\ \E w \in warnings : w[1] = "narration without image"
\* C4: the run moves through Init, Discover, Reconcile, Synthesize,
\* BuildSegments, Concatenate, Fade, Cleanup, Done in this order: a step
\* stays in its state (and then moves forward in the state's loop: a later
\* slide, or a later attempt for the same slide), goes to the next state, or
\* goes to Failed; Done and Failed are never left.
StateOrder ==
    <<"Init", "Discover", "Reconcile", "Synthesize", "BuildSegments",
      "Concatenate", "Fade", "Cleanup", "Done">>
Pos(state) == CHOOSE k \in 1..Len(StateOrder) : StateOrder[k] = state

C4_StatesInOrder ==
    [][ /\ pc \in {"Done", "Failed"} => pc' = pc
        /\ pc' \in Range(StateOrder) \cup {"Failed"}
        /\ \/ pc' = "Failed"
           \/ pc' # pc /\ Pos(pc') = Pos(pc) + 1
           \/ pc' = pc /\ (i' > i \/ (i' = i /\ attempt' > attempt)) ]_vars

C4_Witness ==
    /\ pc = "Done"
    /\ Len(slide_numbers) = 2
    /\ \E k \in 1..Len(calls) : calls[k].op = "sleep"

\* C5: generate_audio, entered with caching on and a non-empty file at the
\* destination, returns with no TTS call and no sleep made, the file system
\* as it was and the run not failed; entered with caching off or with an
\* absent or empty file, it goes into its retry loop, whose every pass calls
\* the TTS collaborator once.
C5_CacheShortcut ==
    [][ (pc = "Synthesize") =>
          LET n == slide_numbers[i]
              before == fs[mp3_path(n)]
              quiet(cs) == SelectSeq(cs, LAMBDA c : c.op \in {"tts", "sleep"})
          IN IF attempt = 0
             THEN IF SKIP_EXISTING_AUDIO /\ before \notin {Absent, Empty}
                  THEN /\ quiet(calls') = quiet(calls)
                       /\ fs' = fs
                       /\ n \in DOMAIN audio_files'
                       /\ attempt' = 0
                       /\ pc' # "Failed"
                  ELSE /\ attempt' = 1
                       /\ pc' = "Synthesize"
                       /\ n \notin DOMAIN audio_files'
             ELSE /\ Len(calls') > Len(calls)
                  /\ calls'[Len(calls) + 1].op = "tts"
                  /\ calls'[Len(calls) + 1].path = mp3_path(n) ]_vars

C5_Witness ==
    /\ SKIP_EXISTING_AUDIO
    /\ \E n \in DOMAIN audio_files :
          /\ fs[mp3_path(n)] = Old
          /\ CallsOn("tts", n) = <<>>
          /\ CallsOn("generate_audio", n) # <<>>

\* The TTS calls and sleeps generate_audio made for slide n, in order.
Attempts(n) == SelectSeq(calls, LAMBDA c : c.op \in {"tts", "sleep"} /\ c.path[2] = n)

\* C6: when a TTS call for slide n succeeded after k failed ones, k is less
\* than MAX_RETRIES, the calls and sleeps for n are: k times a failed call
\* followed by a sleep, then the successful call; the j-th sleep lasts
\* RETRY_BACKOFF * 2^(j-1); and the destination holds the payload of the
\* successful call for as long as the run does not delete it.
C6_RetryThenSucceed ==
    \A n \in SlideNums :
        LET a == Attempts(n)
            k == (Len(a) - 1) \div 2
        IN (\E j \in 1..Len(a) : a[j].op = "tts" /\ a[j].ok) =>
              /\ Len(a) = 2 * k + 1
              /\ k < MAX_RETRIES
              /\ Len(CallsOn("tts", n)) = k + 1
              /\ Len(CallsOn("sleep", n)) = k
              /\ \A j \in 1..k :
                    /\ a[2 * j - 1].op = "tts" /\ ~a[2 * j - 1].ok /\ a[2 * j - 1].arg = j
                    /\ a[2 * j].op = "sleep" /\ a[2 * j].arg = RETRY_BACKOFF * (2 ^ (j - 1))
                    /\ j > 1 => a[2 * j].arg = 2 * a[2 * j - 2].arg
              /\ a[2 * k + 1].op = "tts" /\ a[2 * k + 1].ok /\ a[2 * k + 1].arg = k + 1
              /\ mp3_path(n) \notin deleted => fs[mp3_path(n)] = Payload(n, k + 1)
              /\ n \in DOMAIN audio_files

C6_Witness ==
    \E n \in SlideNums :
        /\ Len(CallsOn("sleep", n)) = MAX_RETRIES - 1
        /\ \E j \in 1..Len(calls) : calls[j].op = "tts" /\ calls[j].ok /\ calls[j].path[2] = n
        /\ fs[mp3_path(n)] = Payload(n, MAX_RETRIES)

\* C7: generate_audio never makes more than MAX_RETRIES TTS calls for a
\* slide; when MAX_RETRIES calls for slide n all failed, the last of them is
\* the last call of the run (no sleep follows it), MAX_RETRIES - 1 sleeps
\* were made for n, the run is Failed with a RuntimeError that carries the
\* exception of the last call, and no TTS call was made for a later slide.
C7_RetriesExhausted ==
    \A n \in SlideNums :
        LET t == CallsOn("tts", n)
        IN /\ Len(t) <= MAX_RETRIES
           /\ (Len(t) = MAX_RETRIES /\ \A j \in 1..Len(t) : ~t[j].ok) =>
                 /\ pc = "Failed"
                 /\ exit_status > 0
                 /\ error = <<"RuntimeError", n, MAX_RETRIES>>
                 /\ calls[Len(calls)] = t[MAX_RETRIES]
                 /\ t[MAX_RETRIES].arg = MAX_RETRIES
                 /\ Len(CallsOn("sleep", n)) = MAX_RETRIES - 1
                 /\ \A m \in SlideNums : m > n => CallsOn("tts", m) = <<>>
                 /\ \A m \in SlideNums : m > n => CallsOn("generate_audio", m) = <<>>

C7_Witness ==
    /\ pc = "Failed"
    /\ error = <<"RuntimeError", 1, MAX_RETRIES>>
    /\ Len(slide_numbers) = 2
    /\ Len(CallsOn("tts", 1)) = MAX_RETRIES
C9_ConfigurationFailures ==
    LET bad_env == \/ "ffmpeg" \notin PATH
                   \/ "ffprobe" \notin PATH
                   \/ ELEVENLABS_API_KEY \in {"", "YOUR_API_KEY_HERE"}
        discovered == pc \notin {"Init", "Discover"}
        bad_files == discovered /\ (script_path = NotFound \/ DOMAIN slide_images = {})
    IN /\ bad_env => pc \in {"Init", "Failed"}
       /\ bad_files => pc = "Failed"
       /\ (bad_env \/ bad_files) =>
             /\ calls = <<>>
             /\ written = {}
             /\ slide_numbers = <<>>
             /\ pc = "Failed" => exit_status > 0

C9_Witness ==
    /\ pc = "Failed"
    /\ exit_status = 1
    /\ PATH = Tools
    /\ ELEVENLABS_API_KEY = "YOUR_API_KEY_HERE"
    /\ error[1] = "SystemExit: API key"

\* C10: a failed probe, pad, render, concatenation or fade is the last call
\* of the run, and the run is Failed with a non-zero exit status.
C10_MediaFailureIsFatal ==
    \A k \in 1..Len(calls) :
        (calls[k].op \in MediaOps /\ ~calls[k].ok) =>
            /\ k = Len(calls)
            /\ pc = "Failed"
            /\ exit_status > 0

C10_Witness ==
    /\ pc = "Failed"
    /\ Len(slide_numbers) = 2
    /\ calls[Len(calls)] = Call("pad", padded_mp3(1), FALSE, SILENCE_PADDING)

\* ------------------------------------------------------------- a second run
\* The program is started again in the same directory, with the same
\* configuration, after a run that got as far as synthesis has ended.  The
\* files stay; everything else starts over.
Rerun ==
    /\ pc \in {"Failed", "Done"}
    /\ ~prev.ran
    /\ slide_numbers # <<>>
    /\ prev' = [ran |-> TRUE, status |-> pc, slide_images |-> slide_images,
                narration |-> narration, script_path |-> script_path,
                warnings |-> {w \in warnings : w[1] = "empty narration"},
                audio_ok |-> {calls[k].path[2] :
                                k \in {j \in 1..Len(calls) :
                                         calls[j].op = "tts" /\ calls[j].ok}}]
    /\ pc' = "Init"
    /\ exit_status' = -1
    /\ error' = NoError
    /\ warnings' = {}
    /\ script_path' = NotFound
    /\ slide_images' = <<>>
    /\ narration' = <<>>
    /\ slide_numbers' = <<>>
    /\ i' = 0
    /\ attempt' = 0
    /\ audio_files' = <<>>
    /\ padded_files' = <<>>
    /\ slide_videos' = <<>>
    /\ manifest' = <<>>
    /\ calls' = <<>>
    /\ written' = {}
    /\ deleted' = {}
    /\ UNCHANGED <<config, text, fs>>

\* Lines 488-505 in the first run.
FirstDiscover == pc = "Discover" /\ ~prev.ran /\ Discover

\* Lines 488-505 in the second run: the script and the images are the ones
\* the first run found, so parse_script returns and warns as it did.
RerunDiscover ==
    /\ pc = "Discover"
    /\ prev.ran
    /\ script_path' = prev.script_path
    /\ slide_images' = prev.slide_images
    /\ narration' = prev.narration
    /\ warnings' = warnings \cup prev.warnings
    /\ Goto("Reconcile")
    /\ UNCHANGED <<config, text, prev, fs, slide_numbers, i, attempt, audio_files,
                   padded_files, slide_videos, manifest, calls, written, deleted>>

\* The first run starts in a valid environment with caching and cleanup
\* enabled, as lines 77-78 set them; a slide's audio is there from earlier
\* or not.
InitRerun ==
    /\ Init
    /\ PATH = Tools
    /\ ELEVENLABS_API_KEY = "sk-valid"
    /\ sdk_installed
    /\ SKIP_EXISTING_AUDIO
    /\ CLEANUP
    /\ \A n \in SlideNums : fs[mp3_path(n)] \in {Absent, Old}

NextRerun ==
    \/ ValidateEnvironment
    \/ FirstDiscover
    \/ RerunDiscover
    \/ Reconcile
    \/ GenerateAudio
    \/ TtsAttempt
    \/ BuildSegment
    \/ Concatenate
    \/ Fade
    \/ Cleanup
    \/ Rerun

SpecRerun == InitRerun /\ [][NextRerun]_vars

\* C11: a run that has ended in Failed has not created or overwritten the
\* final output file; only a run that reaches Done writes it.
C11_FinalOnlyWhenDone ==
    pc = "Failed" => FINAL_OUTPUT \notin written

\* C16: the destination of generate_audio never holds a part of a payload:
\* it is as it was before the run, or holds the complete payload of a
\* successful call.
C16_AtomicAudioWrite ==
    \A n \in SlideNums :
        \/ fs[mp3_path(n)] \in {Absent, Empty, Old}
        \/ \E k \in 1..MAX_RETRIES : fs[mp3_path(n)] = Payload(n, k)

\* C17: the fade of a video that apply_fades measured as T starts its
\* fade-out at T - FADE_DURATION when T >= FADE_DURATION and at 0 otherwise,
\* never at a negative time, and the faded video's fade-in starts at 0.
C17_FadeOutStart ==
    \A k \in 1..Len(calls) :
        calls[k].op = "fade" =>
            /\ k > 1
            /\ calls[k-1].op = "probe" /\ calls[k-1].path = RAW_CONCAT /\ calls[k-1].ok
            /\ LET T == calls[k-1].arg
                   F == FADE_DURATION
               IN /\ T >= F => calls[k].arg = T - F
                  /\ T < F => calls[k].arg = 0
                  /\ calls[k].arg >= 0
                  /\ (calls[k].ok /\ pc \in {"Cleanup", "Done"}) =>
                        /\ fs[FINAL_OUTPUT][2] = 0
                        /\ fs[FINAL_OUTPUT][3] = calls[k].arg

C17_Witness ==
    /\ pc = "Done"
    /\ \E k \in 2..Len(calls) :
          /\ calls[k].op = "fade" /\ calls[k].ok /\ calls[k].arg = 0
          /\ calls[k-1].op = "probe" /\ calls[k-1].arg < FADE_DURATION

\* C18: slides are processed one after the other in ascending slide number
\* and the steps do not overlap: along the run's calls, synthesis (slide by
\* slide, ascending) comes before building (slide by slide, ascending),
\* which comes before the concatenation, which comes before the fade, each
\* slide being synthesized, padded and rendered once; when a media call has
\* happened, every processed slide's synthesis is over (generate_audio was
\* invoked for it and every failed TTS call was followed by another one for
\* the same slide); when the concatenation happens every segment is
\* rendered; and the manifest lists the segments in ascending slide number.
C18_AscendingSequential ==
    LET slide(k) == calls[k].path[2]
        \* the place of a call in the order of the pipeline
        rank(k) ==
            CASE calls[k].op \in {"generate_audio", "tts", "sleep"} -> slide(k)
              [] calls[k].op \in {"pad", "render"} -> MaxSlide + slide(k)
              [] calls[k].op = "probe" /\ calls[k].path = padded_mp3(slide(k))
                    -> MaxSlide + slide(k)
              [] calls[k].op = "concat" -> 2 * MaxSlide + 1
              [] calls[k].op = "probe" /\ calls[k].path = RAW_CONCAT -> 2 * MaxSlide + 1
              [] OTHER -> 2 * MaxSlide + 2
        once(op) == \A n \in SlideNums :
                       Cardinality({k \in 1..Len(calls) :
                                       calls[k].op = op /\ slide(k) = n}) <= 1
        some(op) == \E k \in 1..Len(calls) : calls[k].op = op
        processed == DOMAIN slide_images \cap DOMAIN narration
    IN /\ \A k \in 1..(Len(calls) - 1) : rank(k) <= rank(k + 1)
       /\ once("generate_audio") /\ once("pad") /\ once("render") /\ once("concat")
       /\ (\E k \in 1..Len(calls) : calls[k].op \in MediaOps) =>
             /\ \A n \in processed :
                   \E k \in 1..Len(calls) : calls[k].op = "generate_audio" /\ slide(k) = n
             /\ \A k \in 1..Len(calls) :
                   (calls[k].op = "tts" /\ ~calls[k].ok) =>
                      \E j \in (k+1)..Len(calls) : calls[j].op = "tts" /\ slide(j) = slide(k)
       /\ some("concat") =>
             \A n \in processed :
                \E k \in 1..Len(calls) : calls[k] = Call("render", slide_mp4(n), TRUE, 0)
       /\ \A k \in 1..(Len(manifest) - 1) : manifest[k][2] < manifest[k + 1][2]
       /\ some("concat") =>
             {manifest[k] : k \in 1..Len(manifest)} = {slide_mp4(n) : n \in processed}

C18_Witness ==
    /\ pc = "Done"
    /\ Len(manifest) = 2
    /\ \E j, k \in 1..Len(calls) :
          /\ j < k
          /\ calls[j].op = "tts" /\ calls[j].path = mp3_path(1)
          /\ calls[k].op = "tts" /\ calls[k].path = mp3_path(2)

\* C20: from the moment a run enters Synthesize, the slides it processes are
\* at least one and are exactly the discovered images' slide numbers, so
\* the number of images used in the progress labels is the number of
\* slides processed; a concatenation is given at least one segment, one
\* per image.
C20_WorkableIsAllImages ==
    LET entered == pc \in {"Synthesize", "BuildSegments", "Concatenate", "Fade",
                           "Cleanup", "Done"}
                   \/ (pc = "Failed" /\ calls # <<>>)
    IN entered =>
          /\ slide_numbers # <<>>
          /\ Range(slide_numbers) = DOMAIN slide_images
          /\ Len(slide_numbers) = Cardinality(DOMAIN slide_images)
          /\ \A k \in 1..Len(calls) :
                calls[k].op = "generate_audio" => calls[k].path[2] \in DOMAIN slide_images
          /\ (\E k \in 1..Len(calls) : calls[k].op = "concat") =>
                /\ Len(manifest) >= 1
                /\ Len(manifest) = Cardinality(DOMAIN slide_images)

C20_Witness ==
    /\ pc = "Done"
    /\ DOMAIN slide_images = {2}
    /\ DOMAIN narration = {1, 2}
    /\ manifest = <<slide_mp4(2)>>

\* parse_script has returned or raised on the script the run is followed on.
JustParsed ==
    /\ text # NoText
    /\ pc \in {"Reconcile", "Failed"}
    /\ script_path # NotFound
    /\ DOMAIN slide_images # {}

\* The header lines of the script, the numbers they give, and the lines of
\* the section a header opens.
Headers == {k \in 1..Len(text.lines) : text.lines[k][1] = "SLIDE"}
Number(k) == text.lines[k][2]
SectionOf(k) ==
    {j \in (k+1)..Len(text.lines) : \A h \in Headers : h <= k \/ h > j}
LastHeader(k) == \A h \in Headers : Number(h) = Number(k) => h <= k

\* C12: from a script with N >= 1 header lines parse_script returns a
\* mapping of exactly N entries, keyed by the headers' numbers, and no line
\* of a returned text is a separator or a footer.
C12_OneEntryPerMarker ==
    (JustParsed /\ Headers # {}) =>
        /\ pc = "Reconcile"
        /\ Cardinality(DOMAIN narration) = Cardinality(Headers)
        /\ DOMAIN narration = {Number(k) : k \in Headers}
        /\ \A n \in DOMAIN narration : \A j \in 1..Len(narration[n]) :
               narration[n][j][1] \notin {"sep", "footer"}

\* C13: on a script with at least one header line parse_script does not
\* raise and the run goes on; a section with nothing but separators,
\* footers and blank lines (the last header being the last line, with or
\* without a newline, included) gives a warning and, when it is the last
\* section of its number, an entry with empty text.
C13_EmptySectionOnlyWarns ==
    (JustParsed /\ Headers # {}) =>
        /\ pc = "Reconcile"
        /\ exit_status = -1
        /\ \A k \in Headers :
              (\A j \in SectionOf(k) : text.lines[j][1] \in {"sep", "footer", "blank"}) =>
                 /\ <<"empty narration", {Number(k)}>> \in warnings
                 /\ Number(k) \in DOMAIN narration
                 /\ LastHeader(k) => narration[Number(k)] = <<>>

\* C14: on a script without a header line parse_script raises its parse
\* error, and the run is Failed with a non-zero status without having made
\* a TTS call (or any call).
C14_NoMarkersFails ==
    (JustParsed /\ Headers = {}) =>
        /\ pc = "Failed"
        /\ exit_status > 0
        /\ error[1] = "ValueError: No SLIDE markers found"
        /\ calls = <<>>
        /\ narration = <<>>
        /\ written = {}

C14_Witness ==
    /\ JustParsed
    /\ text.lines = <<<<"text", 1>>, <<"sep", 0>>, <<"text", 1>>>>
    /\ pc = "Failed"
    /\ error[1] = "ValueError: No SLIDE markers found"

\* C19: when several header lines give the same number k, parse_script
\* returns, without raising and without a warning about the repetition, a
\* mapping whose entry for k is the cleaned body of the last section headed
\* k.
C19_LastDuplicateWins ==
    (JustParsed /\ \E j, k \in Headers : j < k /\ Number(j) = Number(k)) =>
        /\ pc = "Reconcile"
        /\ \A w \in warnings : w[1] = "empty narration"
        /\ \A k \in Headers :
              ((\E j \in Headers : j < k /\ Number(j) = Number(k)) /\ LastHeader(k)) =>
                 /\ Number(k) \in DOMAIN narration
                 /\ narration[Number(k)] =
                       collapse(strip(SelectSeq(
                           SubSeq(text.lines, k + 1,
                                  k + Cardinality(SectionOf(k))),
                           LAMBDA l : l[1] \notin {"sep", "footer"})))

\* C15: in a second run, with caching enabled, after a run that ended in
\* Failed, no TTS call is made for a slide whose audio the first run wrote;
\* and whatever files the first run left, the second run pads and renders
\* every processed slide before it concatenates, and concatenates before it
\* fades.
C15_IdempotentResume ==
    (prev.ran /\ prev.status = "Failed" /\ SKIP_EXISTING_AUDIO) =>
        LET did(op, path) == \E k \in 1..Len(calls) : calls[k].op = op /\ calls[k].path = path
            built(n) == did("pad", padded_mp3(n)) /\ did("render", slide_mp4(n))
        IN /\ \A k \in 1..Len(calls) :
                calls[k].op = "tts" => calls[k].path[2] \notin prev.audio_ok
           /\ pc = "BuildSegments" => \A k \in 1..(i-1) : built(slide_numbers[k])
           /\ pc \in {"Concatenate", "Fade", "Cleanup", "Done"} =>
                \A n \in DOMAIN prev.slide_images \cap DOMAIN prev.narration : built(n)
           /\ pc \in {"Fade", "Cleanup", "Done"} => did("concat", RAW_CONCAT)
           /\ pc \in {"Cleanup", "Done"} => did("fade", FINAL_OUTPUT)

C15_Witness ==
    /\ prev.ran /\ prev.status = "Failed" /\ SKIP_EXISTING_AUDIO
    /\ prev.audio_ok = {1, 2}
    /\ pc = "BuildSegments" /\ i = 2
    /\ \A k \in 1..Len(calls) : calls[k].op # "tts"
    /\ \E k \in 1..Len(calls) : calls[k] = Call("render", slide_mp4(1), TRUE, 0)
    /\ is_file(fs[padded_mp3(2)]) /\ is_file(fs[slide_mp4(2)])

\* C21: in a second run, with caching and cleanup enabled, after a run that
\* reached Done, no processed slide's audio is found in the cache: every
\* invocation of generate_audio goes on to a TTS call for its slide, so
\* every slide whose synthesis is over, and once synthesis is over every
\* processed slide, has had at least one TTS call.
C21_CleanupEmptiesCache ==
    (prev.ran /\ prev.status = "Done" /\ CLEANUP /\ SKIP_EXISTING_AUDIO) =>
        LET called(n) == \E k \in 1..Len(calls) :
                            calls[k].op = "tts" /\ calls[k].path = mp3_path(n)
        IN /\ \A k \in 1..Len(calls) :
                calls[k].op = "generate_audio" =>
                   IF k < Len(calls)
                   THEN calls[k + 1].op = "tts" /\ calls[k + 1].path = calls[k].path
                   ELSE pc = "Synthesize" /\ attempt = 1
           /\ \A n \in DOMAIN audio_files : called(n)
           /\ pc \in {"BuildSegments", "Concatenate", "Fade", "Cleanup", "Done"} =>
                \A n \in DOMAIN prev.slide_images \cap DOMAIN prev.narration : called(n)

C21_Witness ==
    /\ prev.ran /\ prev.status = "Done" /\ CLEANUP /\ SKIP_EXISTING_AUDIO
    /\ prev.audio_ok = {}
    /\ DOMAIN prev.slide_images = {1, 2}
    /\ pc = "Done"
    /\ \A n \in {1, 2} : \E k \in 1..Len(calls) :
          calls[k] = Call("tts", mp3_path(n), TRUE, 1)

\* C22: when every external call returns, the run reaches Done or Failed;
\* and at every moment of a run the TTS calls made are at most MAX_RETRIES
\* per processed slide and the backoff waits at most MAX_RETRIES - 1 per
\* processed slide.
C22_TerminatesWithinBudget ==
    /\ [](LET count(op) == Cardinality({k \in 1..Len(calls) : calls[k].op = op})
              slides == Cardinality(DOMAIN slide_images \cap DOMAIN narration)
          IN /\ count("tts") <= MAX_RETRIES * slides
             /\ count("sleep") <= (MAX_RETRIES - 1) * slides)
    /\ <>(pc \in {"Done", "Failed"})

C22_Witness ==
    /\ pc = "Failed"
    /\ Len(slide_numbers) = 2
    /\ Cardinality({k \in 1..Len(calls) : calls[k].op = "tts"}) = MAX_RETRIES * 2
    /\ Cardinality({k \in 1..Len(calls) : calls[k].op = "sleep"}) = (MAX_RETRIES - 1) * 2
====
